---- MODULE Spec2Model ----
(***************************************************************************)
(* A model of refstack-client: the test list parser                       *)
(* (refstack_client/list_parser.py) and the client                        *)
(* (refstack_client/refstack_client.py).                                  *)
(*                                                                         *)
(* Python strings are sequences of one-character strings, so that the     *)
(* regular expressions and the splits of the source are computed and not  *)
(* assumed.  A dict is a function whose DOMAIN is the set of its keys.     *)
(***************************************************************************)
EXTENDS Integers, Sequences, FiniteSets, TLC

VARIABLES
    pc,            \* position of the modelled call
    ret,           \* what the modelled call returned (None until it returns)
    exc,           \* the exception that reached the caller ("none" if none)
    stdout,        \* list_parser: output of the runner's listing command
    list_location, \* list_parser: the user's test list and how it reads
    tempest_ids,   \* list_parser: dict base test ID -> attribute tag
    base_ids,      \* list_parser: the requested base test IDs
    test_list,     \* list_parser: the full test IDs of _get_full_test_ids
    files,         \* list_parser: contents of the temporary files, by name
    atexit,        \* list_parser: names registered for removal at exit
    exists,        \* list_parser: names of the temporary files on disk
    auth_url,      \* client: the Keystone endpoint of the CPID lookup
    response,      \* client: what the last HTTP request came to
    args,          \* client: the arguments of post_results
    keyfile,       \* client: the state of the file named by sign_with
    headers,       \* client: the headers post_results has built
    sent,          \* client: the HTTP requests issued, in order
    prev,          \* client: the arguments and headers of the call before
    json_file,     \* client: the JSON results file of test()
    events,        \* client: what an upload command has done, in order
    gen,           \* client: position of the generator of yield_results
    page,          \* client: the page the generator is at
    batches,       \* client: the batches the generator has yielded
    server,        \* client: what the results server reports
    start_page,    \* client: the start_page of yield_results
    pep479         \* client: the interpreter implements PEP 479

listVars ==
    <<stdout, list_location, tempest_ids, base_ids, test_list, files, atexit,
      exists>>
cpidVars == <<auth_url>>
postVars == <<args, keyfile, headers>>
runVars == <<prev, json_file, events>>
pageVars == <<gen, page, batches, server, start_page, pep479>>
vars ==
    <<pc, ret, exc, listVars, cpidVars, postVars, response, sent, runVars,
      pageVars>>

\* None: told apart from every string, which is a sequence of characters
None == <<"None">>

----------------------------------------------------------------------------
(* Bounds of the model. *)

\* longest runner listing (characters, newlines included) of SpecMap
MaxListing == 5
\* longest runner listing behind the mappings of Spec
MaxRunner == 4
\* longest list of requested base test IDs
MaxReq == 3

----------------------------------------------------------------------------
(* Strings. *)

NL == "\n"
\* the characters test IDs are drawn from: a name character, the scenario
\* parenthesis and the two brackets of an attribute tag
IdChars == {"a", "(", "[", "]"}
\* a listing is text: test ID characters and newlines
TextChars == IdChars \cup {NL}

Texts(n) == UNION {[1..k -> TextChars] : k \in 0..n}

Min(S) == CHOOSE x \in S : \A y \in S : x <= y
Max(S) == CHOOSE x \in S : \A y \in S : x >= y

\* str.find(c, from): the first index >= from holding c, 0 when there is none
Find(s, c, from) ==
    LET S == {i \in from..Len(s) : s[i] = c}
    IN  IF S = {} THEN 0 ELSE Min(S)

\* str.rfind(c) within s[from..to]: the last index holding c, 0 when none
RFind(s, c, from, to) ==
    LET S == {i \in from..to : s[i] = c}
    IN  IF S = {} THEN 0 ELSE Max(S)

Contains(s, c) == \E i \in 1..Len(s) : s[i] = c

RECURSIVE Concat(_)
\* ''.join(seqs)
Concat(seqs) ==
    IF seqs = <<>> THEN <<>> ELSE Head(seqs) \o Concat(Tail(seqs))

RECURSIVE SplitLines(_)
\* text.split('\n'): always at least one piece, none holding a newline
SplitLines(text) ==
    LET i == Find(text, NL, 1)
    IN  IF i = 0 THEN <<text>>
        ELSE <<SubSeq(text, 1, i - 1)>>
                 \o SplitLines(SubSeq(text, i + 1, Len(text)))

----------------------------------------------------------------------------
(* The regular expression \[.*\] of _form_test_id_mappings.  '.' matches   *)
(* any character but a newline and '*' is greedy.                          *)

\* TagMatchEnd as a non-greedy \[.*?\] would compute it: the first ']'
TagMatchEnd_lazy(s, i) ==
    IF i < 1 \/ i > Len(s) \/ s[i] # "[" THEN 0
    ELSE LET E == {j \in (i + 1)..Len(s) :
                      /\ s[j] = "]"
                      /\ \A k \in (i + 1)..(j - 1) : s[k] # NL}
         IN  IF E = {} THEN 0 ELSE Min(E)

\* the end of the match of \[.*\] that starts at i: the last ']' that only
\* non-newline characters separate from i; 0 when no match starts at i
TagMatchEnd(s, i) ==
    IF i < 1 \/ i > Len(s) \/ s[i] # "[" THEN 0
    ELSE LET E == {j \in (i + 1)..Len(s) :
                      /\ s[j] = "]"
                      /\ \A k \in (i + 1)..(j - 1) : s[k] # NL}
         IN  IF E = {} THEN 0 ELSE Max(E)

\* re.search from position `from`: the leftmost start of a match, 0 if none
TagSearch(s, from) ==
    LET S == {i \in from..Len(s) : TagMatchEnd(s, i) # 0}
    IN  IF S = {} THEN 0 ELSE Min(S)

\* match.group(1) of re.search(r'(\[.*\])', testcase); <<>> stands for None
\* where the caller tests `if match`
TagGroup(testcase) ==
    LET i == TagSearch(testcase, 1)
    IN  SubSeq(testcase, i, TagMatchEnd(testcase, i))

RECURSIVE TagSubFrom(_, _)
\* re.sub(r'\[.*\]', '', s) from position `from`: every non-overlapping
\* match, leftmost first, is removed
TagSubFrom(s, from) ==
    LET i == TagSearch(s, from)
    IN  IF i = 0 THEN SubSeq(s, from, Len(s))
        ELSE SubSeq(s, from, i - 1) \o TagSubFrom(s, TagMatchEnd(s, i) + 1)

TagSub(testcase) == TagSubFrom(testcase, 1)

----------------------------------------------------------------------------
(* TestListParser._form_test_id_mappings *)

EmptyDict == [k \in {} |-> <<>>]

\* test_mappings[key] = value
DictSet(d, key, value) ==
    [k \in DOMAIN d \cup {key} |-> IF k = key THEN value ELSE d[k]]

\* the body of the loop (lines 86-94), for one testcase
form_test_id_mapping(test_mappings, testcase) ==
    IF testcase = <<>> THEN test_mappings
    ELSE IF TagSearch(testcase, 1) # 0
         THEN DictSet(test_mappings, TagSub(testcase), TagGroup(testcase))
         ELSE DictSet(test_mappings, testcase, <<>>)

RECURSIVE form_from(_, _)
form_from(test_mappings, lines) ==
    IF lines = <<>> THEN test_mappings
    ELSE form_from(form_test_id_mapping(test_mappings, Head(lines)),
                   Tail(lines))

_form_test_id_mappings(lines) == form_from(EmptyDict, lines)

----------------------------------------------------------------------------
(* TestListParser._get_full_test_ids *)

\* test_id.split('(') taken at the last parenthesis
SplitParen_last(test_id) ==
    LET i == RFind(test_id, "(", 1, Len(test_id))
    IN  <<SubSeq(test_id, 1, i - 1), SubSeq(test_id, i + 1, Len(test_id))>>

\* test_id.split('(', 1) when '(' is in test_id: <<components[0], components[1]>>
SplitParen(test_id) ==
    LET i == Find(test_id, "(", 1)
    IN  <<SubSeq(test_id, 1, i - 1), SubSeq(test_id, i + 1, Len(test_id))>>

\* full_test_id without the scenario branch: the tag always goes last
full_test_id_tag_last(test_id, attr) == test_id \o attr

\* the identifier appended for a test_id found with attributes attr
\* (lines 142-148); an empty attr is falsy
full_test_id(test_id, attr) ==
    IF Contains(test_id, "(") /\ attr # <<>>
    THEN LET components == SplitParen(test_id)
             test_portion == components[1]
             scenario == <<"(">> \o components[2]
         IN  test_portion \o attr \o scenario
    ELSE test_id \o attr

\* full_test_ids_step keeping a missing test_id as it is
full_test_ids_step_keep(ids, acc, test_id) ==
    IF test_id \in DOMAIN ids
    THEN Append(acc, full_test_id(test_id, ids[test_id]))
    ELSE Append(acc, test_id)

\* full_test_ids_step putting the newest identifier first
full_test_ids_step_front(ids, acc, test_id) ==
    IF test_id \in DOMAIN ids
    THEN <<full_test_id(test_id, ids[test_id])>> \o acc
    ELSE acc

\* one iteration of the loop: the KeyError of a missing test_id is caught
\* and only logged
full_test_ids_step(ids, acc, test_id) ==
    IF test_id \in DOMAIN ids
    THEN Append(acc, full_test_id(test_id, ids[test_id]))
    ELSE acc

RECURSIVE full_test_ids_from(_, _, _)
full_test_ids_from(ids, acc, rest) ==
    IF rest = <<>> THEN acc
    ELSE full_test_ids_from(ids, full_test_ids_step(ids, acc, Head(rest)),
                            Tail(rest))

_get_full_test_ids(ids, requested) == full_test_ids_from(ids, <<>>, requested)

----------------------------------------------------------------------------
(* TestListParser._write_normalized_test_list and create_include_list *)

RECURSIVE FileText(_)
\* what the loop of lines 162-163 writes: "%s\n" % test_id for each one
FileText(test_ids) ==
    IF test_ids = <<>> THEN <<>>
    ELSE Head(test_ids) \o <<NL>> \o FileText(Tail(test_ids))

\* NameMatchEnd as a non-greedy .*?\[ would compute it: the first '['
NameMatchEnd_lazy(s, p) ==
    LET nl == Find(s, NL, p)
        eol == IF nl = 0 THEN Len(s) ELSE nl - 1
        S == {i \in p..eol : s[i] = "["}
    IN  IF S = {} THEN 0 ELSE Min(S)

\* the end of the match of .*\[ that starts at p: the last '[' of the run of
\* non-newline characters starting at p; 0 when no match starts at p
NameMatchEnd(s, p) ==
    LET nl == Find(s, NL, p)
        eol == IF nl = 0 THEN Len(s) ELSE nl - 1
    IN  RFind(s, "[", p, eol)

RECURSIVE FindAllFrom(_, _)
\* re.findall(r".*\[", s) from position p: the matches, leftmost first,
\* the scan resuming after each match
FindAllFrom(s, p) ==
    IF p > Len(s) THEN <<>>
    ELSE LET e == NameMatchEnd(s, p)
         IN  IF e = 0 THEN FindAllFrom(s, p + 1)
             ELSE <<SubSeq(s, p, e)>> \o FindAllFrom(s, e + 1)

FindAll(s) == FindAllFrom(s, 1)

RECURSIVE EscapeBrackets(_)
\* re.sub(r"\[", r"\[", test): a backslash is put before every '['
EscapeBrackets(test) ==
    IF test = <<>> THEN <<>>
    ELSE (IF Head(test) = "[" THEN <<"\\", "[">> ELSE <<Head(test)>>)
             \o EscapeBrackets(Tail(test))

\* tests_list of lines 207-208
include_patterns(normalized_list) ==
    LET found == FindAll(normalized_list)
    IN  [i \in 1..Len(found) |-> EscapeBrackets(found[i])]

\* open(path, 'r').read(): text mode, universal newlines
RECURSIVE ReadText(_)
ReadText(bytes) ==
    IF bytes = <<>> THEN <<>>
    ELSE IF Head(bytes) = "\r"
         THEN <<NL>> \o ReadText(IF Len(bytes) > 1 /\ bytes[2] = NL
                                  THEN Tail(Tail(bytes)) ELSE Tail(bytes))
         ELSE <<Head(bytes)>> \o ReadText(Tail(bytes))

----------------------------------------------------------------------------
(* The list parser: the mapping of the runner's listing (SpecMap). *)

\* no test list given
NoLocation == [kind |-> "none", text |-> <<>>]

ListIdle ==
    /\ stdout = <<>>
    /\ list_location = NoLocation
    /\ tempest_ids = EmptyDict
    /\ base_ids = <<>>
    /\ test_list = <<>>
    /\ files = <<>>
    /\ atexit = <<>>
    /\ exists = {}

\* no HTTP request has been answered yet
NoReply ==
    [kind |-> "none", status |-> 0, json |-> FALSE, shape |-> "none",
     services |-> <<>>]

\* no call before this one
NoCall == [kind |-> "none"]

\* no file
NoFile == <<"absent">>

RunIdle ==
    /\ prev = NoCall
    /\ json_file = NoFile
    /\ events = <<>>

\* no generator
PageIdle ==
    /\ gen = "none"
    /\ page = 0
    /\ batches = <<>>
    /\ server = [fixed |-> FALSE, total |-> 0]
    /\ start_page = 0
    /\ pep479 = FALSE

ClientIdle ==
    /\ auth_url = <<>>
    /\ response = NoReply
    /\ args = None
    /\ keyfile = None
    /\ headers = [h \in {} |-> <<>>]
    /\ sent = <<>>

\* process.communicate() has returned the listing, the command succeeded
InitMap ==
    /\ pc = "listed"
    /\ ret = None
    /\ exc = "none"
    /\ stdout \in Texts(MaxListing)
    /\ list_location = NoLocation
    /\ tempest_ids = EmptyDict
    /\ base_ids = <<>>
    /\ test_list = <<>>
    /\ files = <<>>
    /\ atexit = <<>>
    /\ exists = {}
    /\ ClientIdle
    /\ RunIdle
    /\ PageIdle

\* lines 68-71: return self._form_test_id_mappings(stdout.split('\n'))
_get_tempest_test_ids ==
    /\ pc = "listed"
    /\ tempest_ids' = _form_test_id_mappings(SplitLines(stdout))
    /\ pc' = "mapped"
    /\ UNCHANGED <<ret, exc, stdout, list_location, base_ids, test_list>>
    /\ UNCHANGED <<files, atexit, exists>>
    /\ UNCHANGED <<cpidVars, postVars, response, sent, runVars, pageVars>>

NextMap == _get_tempest_test_ids

SpecMap == InitMap /\ [][NextMap]_vars

----------------------------------------------------------------------------
(* The list parser: get_normalized_test_list from line 188 on, and         *)
(* create_include_list (Spec).                                              *)

\* the mappings _get_tempest_test_ids returns; line 186 returns None on an
\* empty one, so the mapping is not empty at line 188
RunnerMappings ==
    {_form_test_id_mappings(SplitLines(t)) : t \in Texts(MaxRunner)}
        \ {EmptyDict}

\* two requested IDs that need not be in the mapping
ProbeIds == {<<"a">>, <<"(", "a">>}

\* the lists of requested base test IDs
Requests(ids) ==
    UNION {[1..n -> DOMAIN ids \cup ProbeIds] : n \in 0..MaxReq}

Init ==
    /\ pc = "ids"
    /\ ret = None
    /\ exc = "none"
    /\ stdout = <<>>
    /\ list_location = NoLocation
    /\ tempest_ids \in RunnerMappings
    /\ base_ids = <<>>
    /\ test_list = <<>>
    /\ files = <<>>
    /\ atexit = <<>>
    /\ exists = {}
    /\ ClientIdle
    /\ RunIdle
    /\ PageIdle

\* lines 189-190: _get_full_test_ids on any list of requested base IDs,
\* one that repeats an ID included
get_full_test_ids ==
    /\ pc = "ids"
    /\ \E requested \in Requests(tempest_ids) :
           /\ base_ids' = requested
           /\ test_list' = _get_full_test_ids(tempest_ids, requested)
    /\ pc' = "normalized"
    /\ UNCHANGED <<ret, exc, stdout, list_location, tempest_ids>>
    /\ UNCHANGED <<files, atexit, exists>>
    /\ UNCHANGED <<cpidVars, postVars, response, sent, runVars, pageVars>>

\* lines 161-168: a new file holding test_ids, registered for removal;
\* the name of a file is its index in files.  Writing or flushing may fail
\* (lines 162-164, an OSError such as a full disk): the file was created at
\* line 161, line 167 is not reached, and what the file holds is left out
_write_normalized_test_list(test_ids, after) ==
    \/ /\ files' = Append(files, FileText(test_ids))
       /\ exists' = exists \cup {Len(files) + 1}
       /\ atexit' = Append(atexit, Len(files) + 1)
       /\ ret' = Len(files) + 1
       /\ exc' = exc
       /\ pc' = after
    \/ /\ files' = Append(files, <<>>)
       /\ exists' = exists \cup {Len(files) + 1}
       /\ exc' = "OSError"
       /\ pc' = "raised"
       /\ UNCHANGED <<atexit, ret>>

\* lines 191-192
get_normalized_test_list ==
    /\ pc = "normalized"
    /\ _write_normalized_test_list(test_list, "written")
    /\ UNCHANGED <<stdout, list_location, tempest_ids, base_ids, test_list>>
    /\ UNCHANGED <<cpidVars, postVars, response, sent, runVars, pageVars>>

\* lines 204-210
create_include_list ==
    /\ pc = "written"
    /\ LET normalized_list == ReadText(files[ret])
       IN  _write_normalized_test_list(include_patterns(normalized_list),
                                       "included")
    /\ UNCHANGED <<stdout, list_location, tempest_ids, base_ids, test_list>>
    /\ UNCHANGED <<cpidVars, postVars, response, sent, runVars, pageVars>>

\* lines 170-176, called with file_path at exit: the files left on disk
_remove_test_list_file(disk, file_path) ==
    IF file_path \in disk THEN disk \ {file_path} ELSE disk

RECURSIVE run_exitfuncs(_, _)
\* the interpreter calls the registered functions, last registered first
run_exitfuncs(disk, registered) ==
    IF registered = <<>> THEN disk
    ELSE run_exitfuncs(
             _remove_test_list_file(disk, registered[Len(registered)]),
             SubSeq(registered, 1, Len(registered) - 1))

\* the process ends, by returning, by exit() or on an exception that
\* nothing caught: the functions registered at line 167 run
process_exit ==
    /\ pc # "exited"
    /\ exists' = run_exitfuncs(exists, atexit)
    /\ atexit' = <<>>
    /\ pc' = "exited"
    /\ UNCHANGED <<ret, exc, stdout, list_location, tempest_ids, base_ids>>
    /\ UNCHANGED <<test_list, files>>
    /\ UNCHANGED <<cpidVars, postVars, response, sent, runVars, pageVars>>

Next ==
    \/ get_full_test_ids
    \/ get_normalized_test_list
    \/ create_include_list
    \/ process_exit

Spec == Init /\ [][Next]_vars

----------------------------------------------------------------------------
(* get_normalized_test_list from line 188 on, the user's test list being   *)
(* read by _get_base_test_ids_from_list_file (SpecUserList).               *)

\* longest user test list, in lines
MaxUserLines == 3

\* longest runner listing, in lines
MaxTempestLines == 2

\* the lines of the lists
UserLines ==
    {<<>>, <<"a">>, <<"a", "[", "a", "]">>, <<"a", "[", "]">>, <<"(", "a">>,
     <<"(", "a", "[", "]">>}

LineLists(n) == UNION {[1..k -> UserLines] : k \in 0..n}

RECURSIVE JoinLines(_)
\* the lines, a newline between one and the next
JoinLines(lines) ==
    IF lines = <<>> THEN <<>>
    ELSE IF Len(lines) = 1 THEN lines[1]
    ELSE lines[1] \o <<NL>> \o JoinLines(Tail(lines))

\* the texts of the user's list, ending in a newline or not
UserTexts ==
    {JoinLines(l) : l \in LineLists(MaxUserLines)}
    \cup {JoinLines(l) \o <<NL>> : l \in LineLists(MaxUserLines)}

\* how list_location reads: a file ("path"), a path that names no readable
\* file ("path_missing"), a URL answered with status 200 ("url") or with an
\* error status and the body text ("url_error"), a URL whose request fails
\* ("url_failed")
Locations ==
    [kind : {"path", "url", "url_error"}, text : UserTexts]
    \cup [kind : {"path_missing", "url_failed"}, text : {<<>>}]

\* the mappings of the runner; line 186 returns None on an empty one
TempestMappings ==
    {_form_test_id_mappings(l) : l \in LineLists(MaxTempestLines)}
        \ {EmptyDict}

InitUserList ==
    /\ pc = "base"
    /\ ret = None
    /\ exc = "none"
    /\ stdout = <<>>
    /\ list_location \in Locations
    /\ tempest_ids \in TempestMappings
    /\ base_ids = <<>>
    /\ test_list = <<>>
    /\ files = <<>>
    /\ atexit = <<>>
    /\ exists = {}
    /\ ClientIdle
    /\ RunIdle
    /\ PageIdle

\* line 115: [line.rstrip('\n') for line in data_file]
FileLines(text) ==
    LET lines == SplitLines(text)
    IN  IF lines[Len(lines)] = <<>>
        THEN SubSeq(lines, 1, Len(lines) - 1)
        ELSE lines

\* the lists holding each element of S once, in any order
Orderings(S) ==
    {f \in [1..Cardinality(S) -> S] :
        \A i, j \in 1..Cardinality(S) : i # j => f[i] # f[j]}

RECURSIVE StripAll(_)
\* the base test ID of every line that is not empty, line by line
StripAll(lines) ==
    IF lines = <<>> THEN <<>>
    ELSE IF Head(lines) = <<>> THEN StripAll(Tail(lines))
    ELSE <<CHOOSE k \in DOMAIN _form_test_id_mappings(<<Head(lines)>>) :
               TRUE>> \o StripAll(Tail(lines))

\* keys_of listing one base test ID per line of the list
keys_of_per_line(lines) == {StripAll(lines)}

\* line 125: list(test_mappings.keys()), in the order of the dict
keys_of(lines) == Orderings(DOMAIN _form_test_id_mappings(lines))

\* lines 107-123: the lines read from list_location, [exc, lines]
read_list(location) ==
    IF location.kind = "path_missing"
    THEN [exc |-> "IOError", lines |-> <<>>]
    ELSE IF location.kind = "url_failed"
    THEN [exc |-> "ConnectionError", lines |-> <<>>]
    ELSE IF location.kind = "path"
    THEN [exc |-> "none", lines |-> FileLines(location.text)]
    ELSE [exc |-> "none", lines |-> SplitLines(location.text)]

\* line 188 and lines 97-125
_get_base_test_ids_from_list_file ==
    /\ pc = "base"
    /\ LET read == read_list(list_location)
       IN  IF read.exc # "none"
           THEN /\ exc' = read.exc
                /\ pc' = "raised"
                /\ base_ids' = base_ids
           ELSE /\ base_ids' \in keys_of(read.lines)
                /\ pc' = "based"
                /\ exc' = exc
    /\ UNCHANGED <<ret, stdout, list_location, tempest_ids, test_list>>
    /\ UNCHANGED <<files, atexit, exists>>
    /\ UNCHANGED <<cpidVars, postVars, response, sent, runVars, pageVars>>

\* lines 189-190
get_full_test_ids_of_base ==
    /\ pc = "based"
    /\ test_list' = _get_full_test_ids(tempest_ids, base_ids)
    /\ pc' = "normalized"
    /\ UNCHANGED <<ret, exc, stdout, list_location, tempest_ids, base_ids>>
    /\ UNCHANGED <<files, atexit, exists>>
    /\ UNCHANGED <<cpidVars, postVars, response, sent, runVars, pageVars>>

NextUserList ==
    \/ _get_base_test_ids_from_list_file
    \/ get_full_test_ids_of_base
    \/ get_normalized_test_list

SpecUserList == InitUserList /\ [][NextUserList]_vars

----------------------------------------------------------------------------
(* The mapping of a listing, then the full IDs of its keys (SpecRound). *)

\* _get_full_test_ids on the mapping of the listing and its base test IDs
get_full_test_ids_of_keys ==
    /\ pc = "mapped"
    /\ base_ids' \in Orderings(DOMAIN tempest_ids)
    /\ test_list' = _get_full_test_ids(tempest_ids, base_ids')
    /\ pc' = "round"
    /\ UNCHANGED <<ret, exc, stdout, list_location, tempest_ids>>
    /\ UNCHANGED <<files, atexit, exists>>
    /\ UNCHANGED <<cpidVars, postVars, response, sent, runVars, pageVars>>

NextRound ==
    \/ _get_tempest_test_ids
    \/ get_full_test_ids_of_keys

SpecRound == InitMap /\ [][NextRound]_vars

----------------------------------------------------------------------------
(* The client: URLs.  parse.urlparse is urllib's: the scheme is what       *)
(* precedes the first ':' when it is made of scheme characters, the        *)
(* netloc what follows '//' up to the first of '/', '?', '#'.              *)

UpperChars ==
    <<"A", "B", "C", "D", "E", "F", "G", "H", "I", "J", "K", "L", "M",
    "N", "O", "P", "Q", "R", "S", "T", "U", "V", "W", "X", "Y", "Z">>
LowerChars ==
    <<"a", "b", "c", "d", "e", "f", "g", "h", "i", "j", "k", "l", "m",
    "n", "o", "p", "q", "r", "s", "t", "u", "v", "w", "x", "y", "z">>
Digits == {"0", "1", "2", "3", "4", "5", "6", "7", "8", "9"}

Range(f) == {f[i] : i \in DOMAIN f}

IsAlpha(c) == c \in Range(UpperChars) \cup Range(LowerChars)
SchemeChars == Range(UpperChars) \cup Range(LowerChars) \cup Digits
                   \cup {"+", "-", "."}

\* str.lower(), one character and a whole string
Lower(c) ==
    IF c \in Range(UpperChars)
    THEN LowerChars[CHOOSE i \in 1..Len(UpperChars) : UpperChars[i] = c]
    ELSE c
LowerStr(s) == [i \in 1..Len(s) |-> Lower(s[i])]

\* _splitnetloc(url, 2): the end of the netloc, the first of '/', '?', '#'
NetlocEnd(url) ==
    LET D == {i \in 3..Len(url) : url[i] \in {"/", "?", "#"}}
    IN  IF D = {} THEN Len(url) ELSE Min(D) - 1

\* _check_bracketed_host: the bracketed host must be an IP address; of the
\* hosts of this model "::1" is one
BracketedHostOK(h) == h = <<":", ":", "1">>

\* urlsplit: [ok, scheme, netloc]; ok is FALSE when it raises ValueError
UrlSplit(url) ==
    LET i == Find(url, ":", 1)
        has_scheme ==
            /\ i > 1
            /\ IsAlpha(url[1])
            /\ \A k \in 1..(i - 1) : url[k] \in SchemeChars
        scheme == IF has_scheme THEN LowerStr(SubSeq(url, 1, i - 1)) ELSE <<>>
        rest == IF has_scheme THEN SubSeq(url, i + 1, Len(url)) ELSE url
        has_netloc == Len(rest) >= 2 /\ rest[1] = "/" /\ rest[2] = "/"
        netloc == IF has_netloc THEN SubSeq(rest, 3, NetlocEnd(rest)) ELSE <<>>
        open == Find(netloc, "[", 1)
        close == Find(netloc, "]", 1)
        bracketed ==
            LET after == SubSeq(netloc, open + 1, Len(netloc))
                c == Find(after, "]", 1)
            IN  SubSeq(after, 1, c - 1)
    IN  IF (open # 0 /\ close = 0) \/ (close # 0 /\ open = 0)
        THEN [ok |-> FALSE, scheme |-> scheme, netloc |-> netloc]
        ELSE IF open # 0 /\ close # 0 /\ ~BracketedHostOK(bracketed)
        THEN [ok |-> FALSE, scheme |-> scheme, netloc |-> netloc]
        ELSE [ok |-> TRUE, scheme |-> scheme, netloc |-> netloc]

\* Hostname without the lower-casing
Hostname_as_written(netloc) ==
    LET at == RFind(netloc, "@", 1, Len(netloc))
        hostinfo == SubSeq(netloc, at + 1, Len(netloc))
        open == Find(hostinfo, "[", 1)
        bracketed == SubSeq(hostinfo, open + 1, Len(hostinfo))
        close == Find(bracketed, "]", 1)
        colon == Find(hostinfo, ":", 1)
        hostname ==
            IF open # 0
            THEN (IF close = 0 THEN bracketed ELSE SubSeq(bracketed, 1, close - 1))
            ELSE (IF colon = 0 THEN hostinfo ELSE SubSeq(hostinfo, 1, colon - 1))
    IN  IF hostname = <<>> THEN None ELSE hostname

\* the hostname property of the parse result: what follows the last '@' of
\* the netloc, up to the ':' of the port (or between '[' and ']'),
\* lower-cased but for an IPv6 zone; None when it is empty
Hostname(netloc) ==
    LET at == RFind(netloc, "@", 1, Len(netloc))
        hostinfo == SubSeq(netloc, at + 1, Len(netloc))
        open == Find(hostinfo, "[", 1)
        bracketed == SubSeq(hostinfo, open + 1, Len(hostinfo))
        close == Find(bracketed, "]", 1)
        colon == Find(hostinfo, ":", 1)
        hostname ==
            IF open # 0
            THEN (IF close = 0 THEN bracketed ELSE SubSeq(bracketed, 1, close - 1))
            ELSE (IF colon = 0 THEN hostinfo ELSE SubSeq(hostinfo, 1, colon - 1))
        pct == Find(hostname, "%", 1)
    IN  IF hostname = <<>> THEN None
        ELSE IF pct = 0 THEN LowerStr(hostname)
        ELSE LowerStr(SubSeq(hostname, 1, pct - 1))
                 \o SubSeq(hostname, pct, Len(hostname))

\* hashlib.md5(bytes).hexdigest(): a digest is determined by the bytes
\* hashed and differs for different bytes
MD5Hex(bytes) == <<"md5">> \o bytes

S_http == <<"h", "t", "t", "p">>
S_https == <<"h", "t", "t", "p", "s">>
S_ftp == <<"f", "t", "p">>

\* generate_cpid without the scheme check of line 349
generate_cpid_any_scheme(endpoint) ==
    LET url_parts == UrlSplit(endpoint)
        hostname == Hostname(url_parts.netloc)
    IN  IF ~url_parts.ok THEN [exc |-> "ValueError", ret |-> None]
        ELSE IF hostname = None
        THEN [exc |-> "AttributeError", ret |-> None]
        ELSE [exc |-> "none", ret |-> MD5Hex(hostname)]

\* RefstackClient._generate_cpid_from_endpoint: [exc, ret]
generate_cpid(endpoint) ==
    LET url_parts == UrlSplit(endpoint)
        hostname == Hostname(url_parts.netloc)
    IN  IF ~url_parts.ok THEN [exc |-> "ValueError", ret |-> None]
        ELSE IF url_parts.scheme \notin {S_http, S_https}
        THEN [exc |-> "ValueError", ret |-> None]
        ELSE IF hostname = None
        THEN [exc |-> "AttributeError", ret |-> None]
        ELSE [exc |-> "none", ret |-> MD5Hex(hostname)]

----------------------------------------------------------------------------
(* The endpoints the model calls the client with: every combination of    *)
(* the parts below, written one after the other.                           *)

H_cloud ==
    <<"c", "l", "o", "u", "d", ".", "e", "x", "a", "m", "p", "l", "e",
    ".", "c", "o", "m">>
H_Cloud ==
    <<"C", "l", "o", "u", "d", ".", "E", "x", "a", "m", "p", "l", "e",
    ".", "C", "O", "M">>
H_bad ==
    <<"b", "a", "d", ".", "e", "x", "a", "m", "p", "l", "e", ".", "c",
    "o", "m">>
H_v6 == <<"[", ":", ":", "1", "]">>
H_v6open == <<"[", ":", ":", "1">>

Schemes == {<<>>, S_http, S_https, <<"H", "T", "T", "P", "S">>, S_ftp}
Seps == {<<>>, <<":">>, <<":", "/", "/">>}
UserInfos == {<<>>, <<"u", "@">>}
Hosts == {<<>>, H_cloud, H_Cloud, H_bad, H_v6, H_v6open}
Ports == {<<>>, <<":", "5", "0", "0", "0">>}
Paths == {<<>>, <<"/", "v", "3">>}

EndpointParts ==
    [scheme : Schemes, sep : Seps, user : UserInfos, host : Hosts,
     port : Ports, path : Paths]

EndpointOf(p) == p.scheme \o p.sep \o p.user \o p.host \o p.port \o p.path

Endpoints == {EndpointOf(p) : p \in EndpointParts}

----------------------------------------------------------------------------
(* _generate_cpid_from_endpoint called with an endpoint (SpecEndpoint). *)

InitEndpoint ==
    /\ pc = "fallback"
    /\ ret = None
    /\ exc = "none"
    /\ ListIdle
    /\ RunIdle
    /\ PageIdle
    /\ auth_url \in Endpoints
    /\ response = NoReply
    /\ args = None
    /\ keyfile = None
    /\ headers = [h \in {} |-> <<>>]
    /\ sent = <<>>

\* lines 347-353
_generate_cpid_from_endpoint ==
    /\ pc = "fallback"
    /\ LET r == generate_cpid(auth_url)
       IN  /\ exc' = r.exc
           /\ ret' = r.ret
    /\ pc' = "done"
    /\ UNCHANGED <<listVars, cpidVars, postVars, response, sent>>
    /\ UNCHANGED <<runVars, pageVars>>

NextEndpoint == _generate_cpid_from_endpoint

SpecEndpoint == InitEndpoint /\ [][NextEndpoint]_vars

----------------------------------------------------------------------------
(* _get_cpid_from_keystone (SpecCpid).  What the POST to the auth URL      *)
(* comes to is a reply: the request raises, or a response arrives with a   *)
(* status and a body; a JSON body is an object with 'access' (Keystone     *)
(* v2), with 'token' (v3), with 'error', or with none of them.             *)

\* longest service catalog of a reply
MaxCatalog == 2

\* a key that is not there: reading it raises KeyError (IndexError for an
\* empty 'endpoints' list)
Absent == <<"absent">>
K_id1 == <<"k", "1">>
K_id2 == <<"k", "2">>

\* a service of the catalog: its type and its id (v2: endpoints[0]['id'])
Services == [type : {"identity", "compute"}, id : {Absent, <<>>, K_id1, K_id2}]

Catalogs == UNION {[1..n -> Services] : n \in 0..MaxCatalog}

Statuses == {200, 203, 201, 401}

Replies ==
    {[kind |-> "exception", status |-> 0, json |-> FALSE, shape |-> "none",
      services |-> <<>>]}
    \cup [kind : {"response"}, status : Statuses, json : {FALSE},
          shape : {"none"}, services : {<<>>}]
    \cup [kind : {"response"}, status : Statuses, json : {TRUE},
          shape : {"error", "other"}, services : {<<>>}]
    \cup [kind : {"response"}, status : Statuses, json : {TRUE},
          shape : {"access", "token"}, services : Catalogs]

RECURSIVE catalog_id(_)
\* the loops of lines 309-315 and 319-324: the id of the first identity
\* service whose id is not empty; None when KeyError or IndexError is raised
catalog_id(services) ==
    IF services = <<>> THEN None
    ELSE LET service == Head(services)
         IN  IF service.type = "identity"
             THEN IF service.id = Absent THEN None
                  ELSE IF service.id # <<>> THEN service.id
                  ELSE catalog_id(Tail(services))
             ELSE catalog_id(Tail(services))

\* lines 299-341: the service ID, or None when an exception was caught
keystone_id(reply) ==
    IF reply.kind = "exception" THEN None
    ELSE IF ~reply.json THEN None
    ELSE IF reply.status \in {200, 203}
    THEN (IF reply.shape = "access" THEN catalog_id(reply.services) ELSE None)
    ELSE IF reply.status = 201
    THEN (IF reply.shape = "token" THEN catalog_id(reply.services) ELSE None)
    ELSE None

\* the auth URLs of the lookups: a scheme (or none), a host (or none), with
\* and without port and path
AuthParts ==
    {p \in EndpointParts :
        /\ p.user = <<>>
        /\ p.scheme \in {<<>>, S_http, S_https, S_ftp}
        /\ p.sep = (IF p.scheme = <<>> THEN <<>> ELSE <<":", "/", "/">>)
        /\ p.host \in {<<>>, H_cloud, H_bad}}

AuthUrls == {EndpointOf(p) : p \in AuthParts}

\* a call of _get_cpid_from_keystone, or of _generate_cpid_from_endpoint
InitCpid ==
    /\ \/ pc = "keystone" /\ auth_url \in AuthUrls
       \/ pc = "fallback" /\ auth_url \in Endpoints
    /\ ret = None
    /\ exc = "none"
    /\ ListIdle
    /\ RunIdle
    /\ PageIdle
    /\ response = NoReply
    /\ args = None
    /\ keyfile = None
    /\ headers = [h \in {} |-> <<>>]
    /\ sent = <<>>

\* lines 299-342, up to the call of line 342
_get_cpid_from_keystone ==
    /\ pc = "keystone"
    /\ \E reply \in Replies :
           /\ response' = reply
           /\ sent' = Append(sent, [method |-> "POST", url |-> auth_url])
           /\ IF keystone_id(reply) # None
              THEN pc' = "done" /\ ret' = keystone_id(reply)
              ELSE pc' = "fallback" /\ ret' = ret
    /\ UNCHANGED <<exc, listVars, cpidVars, postVars, runVars, pageVars>>

NextCpid ==
    \/ _get_cpid_from_keystone
    \/ _generate_cpid_from_endpoint

SpecCpid == InitCpid /\ [][NextCpid]_vars

----------------------------------------------------------------------------
(* post_results (SpecPost). *)

\* longest run, in seconds, of the envelopes
MaxDuration == 1

\* sign_with when no key is given: falsy at line 401
NoKey == "None"

\* RefstackClient._form_result_content
_form_result_content(cpid, duration, results) ==
    [cpid |-> cpid, duration_seconds |-> duration, results |-> results]

Envelopes ==
    {_form_result_content(c, d, r) :
        c \in {"cpid1", "cpid2"}, d \in 0..MaxDuration,
        r \in {<<>>, <<"t1">>, <<"t1", "t2">>}}

PostArgs ==
    [url : {"https://refstack"}, content : Envelopes,
     sign_with : {NoKey, "key.pem"}]

\* the file sign_with names: it cannot be opened ("missing"); reading it
\* fails, with IOError ("io_error") or while decoding ("undecodable", a
\* ValueError); load_pem_private_key raises ValueError ("malformed"),
\* UnsupportedAlgorithm ("unsupported") or, the key being encrypted and no
\* password given, TypeError ("encrypted"); or it holds an RSA key
KeyStates ==
    {"missing", "io_error", "undecodable", "malformed", "unsupported",
     "encrypted", "valid"}
KeyFiles == [state : KeyStates, key : {"rsa1", "rsa2"}]
NoKeyFile == [state |-> "none", key |-> "none"]

\* json.dumps(content): the serialized envelope
Dumps(content) == <<"json", content>>

\* lines 413-415: the hex-encoded signature of data under key, salt being
\* the random octets the padding drew
Signature(key, data, salt) == <<"hex", "sig", key, data, salt>>

\* public_bytes(Encoding.OpenSSH, PublicFormat.OpenSSH)
PublicBytes(key) == <<"ssh-rsa", key>>

\* what the POST to the results endpoint comes to
PostReplies ==
    {[kind |-> "exception", status |-> 0, json |-> FALSE, shape |-> "none",
      services |-> <<>>]}
    \cup [kind : {"response"}, status : {201, 400, 500}, json : {FALSE},
          shape : {"none"}, services : {<<>>}]
    \cup [kind : {"response"}, status : {201, 400, 500}, json : {TRUE},
          shape : {"url", "other", "list"}, services : {<<>>}]

\* a call of post_results
InitPost ==
    /\ pc = "post"
    /\ ret = None
    /\ exc = "none"
    /\ ListIdle
    /\ RunIdle
    /\ PageIdle
    /\ auth_url = <<>>
    /\ response = NoReply
    /\ args \in PostArgs
    /\ keyfile \in (IF args.sign_with = NoKey THEN {NoKeyFile} ELSE KeyFiles)
    /\ headers = [h \in {} |-> <<>>]
    /\ sent = <<>>

\* key_outcome sending the envelope unsigned when the key cannot be loaded
key_outcome_skip(sign_with, file) ==
    IF sign_with = NoKey THEN "unsigned"
    ELSE IF file.state = "valid" THEN "signed"
    ELSE "unsigned"

\* lines 401-412: how the block under `if sign_with` ends
key_outcome(sign_with, file) ==
    IF sign_with = NoKey THEN "unsigned"
    ELSE IF file.state = "missing" THEN "IOError"
    ELSE IF file.state \in {"io_error", "undecodable", "malformed",
                            "unsupported"}
    THEN "return"
    ELSE IF file.state = "encrypted" THEN "TypeError"
    ELSE "signed"

\* a signature scheme with random padding
Padding_pss == "PSS"

\* line 413: padding.PKCS1v15()
Padding == "PKCS1v15"

\* the random octets a signature draws: none under PKCS#1 v1.5
Salts(padding) == IF padding = "PSS" THEN {0, 1} ELSE {0}

\* the headers with the signature alone
sign_headers_sig_only(base, key, data, salt) ==
    [h \in DOMAIN base \cup {"X-Signature"} |->
        IF h = "X-Signature" THEN Signature(key, data, salt) ELSE base[h]]

\* lines 420-421
sign_headers(base, key, data, salt) ==
    [h \in DOMAIN base \cup {"X-Signature", "X-Public-Key"} |->
        IF h = "X-Signature" THEN Signature(key, data, salt)
        ELSE IF h = "X-Public-Key" THEN PublicBytes(key)
        ELSE base[h]]

\* lines 397-421
post_results_sign ==
    /\ pc = "post"
    /\ LET data == Dumps(args.content)
           base == [h \in {"Content-type"} |-> <<"application/json">>]
           out == key_outcome(args.sign_with, keyfile)
       IN  /\ \E salt \in Salts(Padding) :
                  headers' =
                      IF out = "signed"
                      THEN sign_headers(base, keyfile.key, data, salt)
                      ELSE base
           /\ pc' = IF out \in {"signed", "unsigned"} THEN "send" ELSE "done"
           /\ exc' = IF out \in {"IOError", "TypeError"} THEN out ELSE exc
    /\ UNCHANGED <<ret, listVars, cpidVars, args, keyfile, response, sent>>
    /\ UNCHANGED <<runVars, pageVars>>

\* after_post posting again when the request failed
after_post_retry(reply) ==
    IF reply.kind = "exception" THEN "send" ELSE "responded"

\* lines 428-433: where post_results goes on after the POST
after_post(reply) ==
    IF reply.kind = "exception" THEN "done" ELSE "responded"

\* lines 422-431
post_results_send ==
    /\ pc = "send"
    /\ \E reply \in PostReplies :
           /\ response' = reply
           /\ sent' = Append(sent, [method |-> "POST",
                                    url |-> <<args.url, "/v1/results/">>,
                                    data |-> Dumps(args.content),
                                    headers |-> headers])
           /\ pc' = after_post(reply)
    /\ UNCHANGED <<ret, exc, listVars, cpidVars, postVars, runVars, pageVars>>

\* lines 433-435: response.json() raises ValueError on a body that is not
\* JSON, resp.get raises AttributeError on JSON that is not an object
post_results_finish ==
    /\ pc = "responded"
    /\ exc' = IF response.status # 201 THEN exc
              ELSE IF ~response.json THEN "ValueError"
              ELSE IF response.shape = "list" THEN "AttributeError"
              ELSE exc
    /\ pc' = "done"
    /\ UNCHANGED <<ret, listVars, cpidVars, postVars, response, sent>>
    /\ UNCHANGED <<runVars, pageVars>>

NextPost ==
    \/ post_results_sign
    \/ post_results_send
    \/ post_results_finish

SpecPost == InitPost /\ [][NextPost]_vars

\* post_results is called once more, the first call having ended
post_results_again ==
    /\ pc = "done"
    /\ prev = NoCall
    /\ prev' = [kind |-> "call", args |-> args, keyfile |-> keyfile,
                headers |-> headers, sent |-> sent, exc |-> exc]
    /\ \E a \in PostArgs :
           /\ args' = a
           /\ keyfile' \in (IF a.sign_with = NoKey THEN {NoKeyFile}
                            ELSE KeyFiles)
    /\ headers' = [h \in {} |-> <<>>]
    /\ response' = NoReply
    /\ sent' = <<>>
    /\ exc' = "none"
    /\ pc' = "post"
    /\ UNCHANGED <<ret, listVars, cpidVars, json_file, events, pageVars>>

NextTwice ==
    \/ NextPost
    \/ post_results_again

\* two calls of post_results, one after the other (SpecTwice)
SpecTwice == InitPost /\ [][NextTwice]_vars

----------------------------------------------------------------------------
(* test() from line 577 on, the runner having ended (SpecTest). *)

\* the arguments of the run and what it left: subunit tells whether the
\* results stream exists (line 577), upload is self.args.upload, sign_with
\* is self.args.priv_key
TestArgs ==
    [url : {"https://refstack"}, content : Envelopes,
     sign_with : {NoKey, "key.pem"}, upload : BOOLEAN, subunit : BOOLEAN]

\* line 369: json.dumps(results, indent=4, separators=(',', ': '))
DumpsIndented(content) == <<"json", "indent=4", content>>

\* lines 368-370: the file _save_json_results leaves
_save_json_results(results) == <<"file", DumpsIndented(results)>>

\* line 368 has opened and emptied the file, line 369 or 370 failed
Truncated == <<"file", <<>>>>

InitTest ==
    /\ pc = "test"
    /\ ret = None
    /\ exc = "none"
    /\ ListIdle
    /\ RunIdle
    /\ PageIdle
    /\ auth_url = <<>>
    /\ response = NoReply
    /\ args \in TestArgs
    /\ keyfile \in (IF args.sign_with = NoKey THEN {NoKeyFile} ELSE KeyFiles)
    /\ headers = [h \in {} |-> <<>>]
    /\ sent = <<>>

\* test() uploading the results without saving them
after_run_upload_first(subunit) == IF subunit THEN "post" ELSE "done"

\* lines 577 and 605: the branch on the results stream
after_run(subunit) == IF subunit THEN "save" ELSE "done"

\* lines 602-604
after_save(upload) == IF upload THEN "post" ELSE "done"

\* lines 577-595 and 605-617
test_results ==
    /\ pc = "test"
    /\ pc' = after_run(args.subunit)
    /\ UNCHANGED <<ret, exc, listVars, cpidVars, postVars, response, sent>>
    /\ UNCHANGED <<runVars, pageVars>>

\* lines 596-602: the JSON file is written, or writing it raises
test_save ==
    /\ pc = "save"
    /\ \/ /\ json_file' = _save_json_results(args.content)
          /\ pc' = after_save(args.upload)
          /\ exc' = exc
       \/ /\ json_file' \in {NoFile, Truncated}
          /\ pc' = "failed"
          /\ exc' = "OSError"
    /\ UNCHANGED <<ret, listVars, cpidVars, postVars, response, sent>>
    /\ UNCHANGED <<prev, events, pageVars>>

NextTest ==
    \/ test_results
    \/ test_save
    \/ NextPost

SpecTest == InitTest /\ [][NextTest]_vars

----------------------------------------------------------------------------
(* The commands upload and upload_subunit (SpecUpload). *)

\* no content yet
NoContent == [cpid |-> None, duration_seconds |-> 0, results |-> <<>>]

\* the arguments of the command: file tells whether self.args.file is a
\* file (line 129), quiet is the assume-yes flag
UploadArgs ==
    [url : {"https://refstack"}, content : {NoContent},
     sign_with : {NoKey, "key.pem"}, command : {"upload", "upload_subunit"},
     file : {"missing", "present"}, quiet : BOOLEAN]

\* self.args.keystone_endpoint
KeystoneEndpoints ==
    {S_https \o <<":", "/", "/">> \o H_Cloud \o <<":", "5", "0", "0", "0">>,
     S_http \o <<":", "/", "/">> \o H_bad,
     S_ftp \o <<":", "/", "/">> \o H_cloud,
     S_https \o <<":">>}

\* the lists of passed tests get_passed_tests reads from a subunit stream
PassedTests == {<<>>, <<"t1">>, <<"t1", "t2">>}

\* what the operator types at the prompt
Answers ==
    {<<"y", "e", "s">>, <<"y">>, <<"Y", "E", "S">>, <<"Y", "e", "s">>,
     <<"Y">>, <<"n", "o">>, <<"n">>, <<>>, <<"y", "e">>,
     <<"y", "e", "s", " ">>, <<" ", "y">>}

\* Ctrl-C at the prompt
Interrupt == <<"KeyboardInterrupt">>

\* a step of the command: the CPID computed, the operator asked
Event(step, inp) == [step |-> step, inp |-> inp]

InitUpload ==
    /\ pc = "upload"
    /\ ret = None
    /\ exc = "none"
    /\ ListIdle
    /\ RunIdle
    /\ PageIdle
    /\ response = NoReply
    /\ args \in UploadArgs
    /\ auth_url \in (IF args.command = "upload" THEN {<<>>}
                     ELSE KeystoneEndpoints)
    /\ keyfile \in (IF args.sign_with = NoKey THEN {NoKeyFile} ELSE KeyFiles)
    /\ headers = [h \in {} |-> <<>>]
    /\ sent = <<>>

\* _prep_upload going on whether the file is there or not
after_prep_unchecked(file, command) ==
    IF command = "upload" THEN "load" ELSE "cpid"

\* lines 129-133: exit(1) unless self.args.file is a file
after_prep(file, command) ==
    IF file = "missing" THEN "exited"
    ELSE IF command = "upload" THEN "load" ELSE "cpid"

\* lines 621 and 629
_prep_upload ==
    /\ pc = "upload"
    /\ LET after == after_prep(args.file, args.command)
       IN  /\ pc' = after
           /\ exc' = IF after = "exited" THEN "SystemExit(1)" ELSE exc
    /\ UNCHANGED <<ret, listVars, cpidVars, postVars, response, sent>>
    /\ UNCHANGED <<runVars, pageVars>>

\* lines 622-625: json.load gives the content, or raises ValueError
upload ==
    /\ pc = "load"
    /\ \/ \E json_data \in Envelopes :
              /\ args' = [args EXCEPT !.content = json_data]
              /\ pc' = "prompt"
              /\ exc' = exc
       \/ /\ exc' = "ValueError"
          /\ pc' = "done"
          /\ args' = args
    /\ UNCHANGED <<ret, listVars, cpidVars, keyfile, headers, response, sent>>
    /\ UNCHANGED <<runVars, pageVars>>

\* a duration taken from a clock
upload_subunit_duration_timed == MaxDuration

\* line 633: duration = 0
upload_subunit_duration == 0

\* lines 631-641
upload_subunit ==
    /\ pc = "cpid"
    /\ events' = Append(events, Event("cpid", auth_url))
    /\ LET cpid == generate_cpid(auth_url)
       IN  IF cpid.exc # "none"
           THEN /\ exc' = cpid.exc
                /\ pc' = "done"
                /\ args' = args
           ELSE /\ \E results \in PassedTests :
                       args' = [args EXCEPT !.content =
                                   _form_result_content(
                                       cpid.ret, upload_subunit_duration,
                                       results)]
                /\ pc' = "prompt"
                /\ exc' = exc
    /\ UNCHANGED <<ret, listVars, cpidVars, keyfile, headers, response, sent>>
    /\ UNCHANGED <<prev, json_file, pageVars>>

\* the answers taken for consent
Yes == {<<"y", "e", "s">>, <<"y">>}

\* _user_query agreeing to whatever was typed
_user_query_any(quiet, inp) ==
    IF quiet THEN "True"
    ELSE IF inp = Interrupt THEN "None"
    ELSE "True"

\* lines 372-381: what _user_query returns on the answer inp
_user_query(quiet, inp) ==
    IF quiet THEN "True"
    ELSE IF inp = Interrupt THEN "None"
    ELSE IF LowerStr(inp) \in Yes THEN "True" ELSE "False"

\* lines 383-387: the operator is asked unless quiet
_upload_prompt ==
    /\ pc = "prompt"
    /\ \E inp \in (IF args.quiet THEN {<<>>} ELSE Answers \cup {Interrupt}) :
           /\ events' = IF args.quiet THEN events
                        ELSE Append(events, Event("prompt", inp))
           /\ pc' = IF _user_query(args.quiet, inp) = "True"
                    THEN "post" ELSE "done"
    /\ UNCHANGED <<ret, exc, listVars, cpidVars, postVars, response, sent>>
    /\ UNCHANGED <<prev, json_file, pageVars>>

NextUpload ==
    \/ _prep_upload
    \/ upload
    \/ upload_subunit
    \/ _upload_prompt
    \/ NextPost

SpecUpload == InitUpload /\ [][NextUpload]_vars

----------------------------------------------------------------------------
(* yield_results and its consumer, list (SpecList). *)

\* the largest total page count the server reports
MaxPages == 3

\* the page counter stops at PageCap, which stands for every page beyond
\* the totals the server reports
PageCap == MaxPages + 1

\* itertools.count repeating the page
NextPage_stay(p) == p

\* line 647: itertools.count(start_page), counted up to PageCap
NextPage(p) == IF p < PageCap THEN p + 1 ELSE PageCap

\* a log of pages: a page at PageCap is logged once
LogPage(log, entry, p) ==
    IF p = PageCap /\ log # <<>> /\ log[Len(log)] = entry
    THEN log
    ELSE Append(log, entry)

\* lines 645-654: the GET of a page
GetPage(p) ==
    [method |-> "GET", url |-> <<"https://refstack", "/v1/results/">>,
     page |-> p]

\* line 661: resp.get('results', []), the batch the server holds for page p
Batch(p) == <<"results", p>>

\* a fixed server reports the same total in every response
Servers == [fixed : BOOLEAN, total : 0..MaxPages]

\* what a GET comes to: the page and its pagination ("ok"), an error
\* status, on which raise_for_status raises HTTPError ("http_error"), a
\* request that failed, ConnectionError or Timeout ("conn_error"), or a
\* body that is not JSON ("bad_body")
GetReplies(srv) ==
    {[kind |-> "ok", total |-> t] :
        t \in (IF srv.fixed THEN {srv.total} ELSE 0..MaxPages)}
    \cup {[kind |-> k, total |-> 0] :
             k \in {"http_error", "conn_error", "bad_body"}}

\* list has called yield_results and asks for the first batch
InitList ==
    /\ pc = "next"
    /\ ret = None
    /\ exc = "none"
    /\ ListIdle
    /\ RunIdle
    /\ ClientIdle
    /\ server \in Servers
    /\ start_page \in 1..2
    /\ pep479 \in BOOLEAN
    /\ gen = "loop"
    /\ page = start_page
    /\ batches = <<>>

\* a generator running ahead of its consumer
Resumable_eager(consumer) == consumer \in {"next", "prompt"}

\* the body of a generator runs while its consumer is inside next()
Resumable(consumer) == consumer = "next"

\* lines 658 and 664, `raise StopIteration` in the generator: the end of the sequence, and
\* under PEP 479 a RuntimeError in the consumer
raise_StopIteration ==
    /\ gen' = "ended"
    /\ exc' = IF pep479 THEN "RuntimeError" ELSE exc
    /\ pc' = IF pep479 THEN "raised" ELSE "returned"

\* lines 647-662: the request of a page, up to the yield
yield_results_get ==
    /\ gen = "loop"
    /\ Resumable(pc)
    /\ \E reply \in GetReplies(server) :
           /\ response' = reply
           /\ sent' = LogPage(sent, GetPage(page), page)
           /\ IF reply.kind = "ok"
              THEN /\ batches' = LogPage(batches, Batch(page), page)
                   /\ gen' = "yielded"
                   /\ pc' = "prompt"
                   /\ exc' = exc
              ELSE IF reply.kind = "http_error"
              THEN /\ raise_StopIteration
                   /\ batches' = batches
              ELSE /\ gen' = "ended"
                   /\ exc' = IF reply.kind = "conn_error"
                             THEN "ConnectionError" ELSE "ValueError"
                   /\ pc' = "raised"
                   /\ batches' = batches
    /\ UNCHANGED <<ret, listVars, cpidVars, postVars, runVars>>
    /\ UNCHANGED <<page, server, start_page, pep479>>

\* lines 663-664 and 647: from the yield to the next turn of the loop
yield_results_resume ==
    /\ gen = "yielded"
    /\ Resumable(pc)
    /\ IF response.total = page
       THEN /\ raise_StopIteration
            /\ page' = page
       ELSE /\ page' = NextPage(page)
            /\ gen' = "loop"
            /\ UNCHANGED <<pc, exc>>
    /\ UNCHANGED <<ret, listVars, cpidVars, postVars, runVars>>
    /\ UNCHANGED <<response, sent, batches, server, start_page, pep479>>

\* lines 671-675: the batch is printed and the operator presses Enter
list_enter ==
    /\ pc = "prompt"
    /\ pc' = "next"
    /\ UNCHANGED <<ret, exc, listVars, cpidVars, postVars, runVars>>
    /\ UNCHANGED <<response, sent, pageVars>>

\* lines 676-677: KeyboardInterrupt at the prompt; the generator is dropped
list_interrupt ==
    /\ pc = "prompt"
    /\ pc' = "interrupted"
    /\ gen' = "ended"
    /\ UNCHANGED <<ret, exc, listVars, cpidVars, postVars, runVars>>
    /\ UNCHANGED <<response, sent, page, batches, server, start_page, pep479>>

NextList ==
    \/ yield_results_get
    \/ yield_results_resume
    \/ list_enter
    \/ list_interrupt

SpecList == InitList /\ [][NextList]_vars

\* the generator runs when it can and the operator keeps pressing Enter
SpecListFair ==
    /\ SpecList
    /\ WF_vars(yield_results_get)
    /\ WF_vars(yield_results_resume)
    /\ WF_vars(list_enter)

----------------------------------------------------------------------------
(* Claims about the list parser. *)

Normalized == pc \in {"normalized", "written", "included"}

\* the i-th requested ID is a key of the mapping
Found(i) == base_ids[i] \in DOMAIN tempest_ids

\* how many of the first i requested IDs are keys of the mapping
Rank(i) == Cardinality({j \in 1..i : Found(j)})

\* the identifier the specification gives for base b with tag t
Canonical(b, t) ==
    IF t = <<>> THEN b
    ELSE IF ~Contains(b, "(") THEN b \o t
    ELSE LET i == Find(b, "(", 1)
         IN  SubSeq(b, 1, i - 1) \o t \o SubSeq(b, i, Len(b))

\* C1: every requested base identifier that is a key of the mapping gets
\* exactly one identifier: the base itself for an empty tag, base + tag
\* when the base has no '(', and otherwise the tag put before the first '('.
C1_CanonicalForm ==
    Normalized =>
        /\ Len(test_list) = Rank(Len(base_ids))
        /\ \A i \in 1..Len(base_ids) :
               Found(i) =>
                   test_list[Rank(i)]
                       = Canonical(base_ids[i], tempest_ids[base_ids[i]])

\* a tagged base with a scenario was requested and normalized
C1_Witness ==
    /\ pc = "normalized"
    /\ \E i \in 1..Len(base_ids) :
           /\ Found(i)
           /\ Contains(base_ids[i], "(")
           /\ base_ids[i][1] # "("
           /\ tempest_ids[base_ids[i]] # <<>>
           /\ test_list[Rank(i)] # base_ids[i] \o tempest_ids[base_ids[i]]

\* C2: a requested identifier that is not a key of the mapping gives no
\* output entry and no error: the output is no longer than the input and
\* has as many entries as there are requested identifiers that are keys.
C2_MissingDropped ==
    Normalized =>
        /\ exc = "none"
        /\ Len(test_list) <= Len(base_ids)
        /\ Len(test_list)
               = Cardinality({i \in 1..Len(base_ids) : Found(i)})
        /\ (\A i \in 1..Len(base_ids) : ~Found(i)) => test_list = <<>>

\* a list with a missing identifier before a found one was normalized
C2_Witness ==
    /\ pc = "normalized"
    /\ Len(base_ids) >= 2
    /\ ~Found(1)
    /\ Found(2)
    /\ Len(test_list) = 1

IsKey(b) == b \in DOMAIN tempest_ids

\* C3: the output keeps the order and the duplicates of the input: it is,
\* entry by entry, what the found requested identifiers give, in their order.
C3_OrderAndDuplicates ==
    Normalized =>
        LET found == SelectSeq(base_ids, IsKey)
        IN  /\ Len(test_list) = Len(found)
            /\ \A j \in 1..Len(found) :
                   test_list[j] = Canonical(found[j], tempest_ids[found[j]])

\* two different found identifiers and a repeat of the first were requested
C3_Witness ==
    /\ pc = "normalized"
    /\ Len(base_ids) = 3
    /\ \A i \in 1..3 : Found(i)
    /\ base_ids[1] # base_ids[2]
    /\ base_ids[3] = base_ids[1]
    /\ test_list[1] # test_list[2]
    /\ test_list[3] = test_list[1]

\* the lines of the listing the mapping was built from
Lines == SplitLines(stdout)

\* a line has a bracket span when a ']' follows its first '['
FirstOpen(l) == Find(l, "[", 1)
LastClose(l) == RFind(l, "]", 1, Len(l))
HasSpan(l) == FirstOpen(l) # 0 /\ LastClose(l) > FirstOpen(l)

\* the span from the first '[' to the last ']', and the line without it
SpanOf(l) == IF HasSpan(l) THEN SubSeq(l, FirstOpen(l), LastClose(l)) ELSE <<>>
KeyOf(l) ==
    IF HasSpan(l)
    THEN SubSeq(l, 1, FirstOpen(l) - 1) \o SubSeq(l, LastClose(l) + 1, Len(l))
    ELSE l

\* C4: each nonempty line is stored under the line without the span from
\* its first '[' to its last ']', with that span as tag (the whole line and
\* an empty tag when it has no such span); empty lines add nothing; of two
\* lines with one key the later one's tag is kept.
C4_MappingOfLines ==
    pc = "mapped" =>
        /\ DOMAIN tempest_ids
               = {KeyOf(Lines[i]) : i \in {j \in 1..Len(Lines) : Lines[j] # <<>>}}
        /\ \A i \in 1..Len(Lines) :
               (/\ Lines[i] # <<>>
                /\ \A j \in (i + 1)..Len(Lines) :
                       Lines[j] = <<>> \/ KeyOf(Lines[j]) # KeyOf(Lines[i]))
                   => tempest_ids[KeyOf(Lines[i])] = SpanOf(Lines[i])

\* a later line replaced the tag of an earlier line with the same key
C4_Witness ==
    /\ pc = "mapped"
    /\ \E i, j \in 1..Len(Lines) :
           /\ i < j
           /\ Lines[i] # <<>>
           /\ Lines[j] # <<>>
           /\ KeyOf(Lines[i]) = KeyOf(Lines[j])
           /\ SpanOf(Lines[i]) # SpanOf(Lines[j])
           /\ tempest_ids[KeyOf(Lines[i])] = SpanOf(Lines[j])

\* s with a backslash before every '['
Escaped(s) ==
    Concat([i \in 1..Len(s) |->
               IF s[i] = "[" THEN <<"\\", "[">> ELSE <<s[i]>>])

HasBracket(id) == Contains(id, "[")

\* where the attribute tag of the j-th normalized identifier opens: right
\* after the part of its base that precedes the tag
TagOpen(j) ==
    LET b == SelectSeq(base_ids, IsKey)[j]
        i == Find(b, "(", 1)
    IN  IF tempest_ids[b] = <<>> THEN Find(test_list[j], "[", 1)
        ELSE IF i = 0 THEN Len(b) + 1
        ELSE i

\* the include file holds exactly the lines `patterns`, in order
IncludeFileIs(patterns) ==
    /\ Len(files) = 2
    /\ ret = 2
    /\ files[2] = FileText(patterns)

\* C5 as stated: one pattern for each normalized identifier with a '[', in
\* order: its text up to and including the bracket that opens its tag,
\* escaped.
C5_Original ==
    pc = "included" =>
        LET idx == SelectSeq([j \in 1..Len(test_list) |-> j],
                             LAMBDA j : HasBracket(test_list[j]))
        IN  IncludeFileIs([n \in 1..Len(idx) |->
                Escaped(SubSeq(test_list[idx[n]], 1, TagOpen(idx[n])))])

\* C5 amended: one pattern for each normalized identifier with a '[', in
\* order, none for the others: its text up to and including its last '[',
\* every '[' of that text escaped.
C5_LastBracket ==
    pc = "included" =>
        LET hit == SelectSeq(test_list, HasBracket)
        IN  IncludeFileIs([n \in 1..Len(hit) |->
                Escaped(SubSeq(hit[n], 1, RFind(hit[n], "[", 1, Len(hit[n]))))])

\* an include list was written for an identifier with two '[' and for one
\* without any
C5_Witness ==
    /\ pc = "included"
    /\ \E j, k \in 1..Len(test_list) :
           /\ Cardinality({i \in 1..Len(test_list[j]) : test_list[j][i] = "["}) = 2
           /\ ~HasBracket(test_list[k])
    /\ files[2] # <<>>

----------------------------------------------------------------------------
(* Claims about the CPID. *)

\* the URL is written with an http or https scheme: that is what precedes
\* its first ':', whatever the case of the letters
HttpScheme(url) ==
    LET i == Find(url, ":", 1)
    IN  i > 1 /\ LowerStr(SubSeq(url, 1, i - 1)) \in {S_http, S_https}

\* the lookup does not give an ID: the request raised, the body is not the
\* JSON the status calls for, or reading the catalog up to the first
\* identity service with an ID meets a key that is not there, or none has one
LookupFails(reply) ==
    \/ reply.kind = "exception"
    \/ ~reply.json
    \/ ~(\/ reply.status \in {200, 203} /\ reply.shape = "access"
         \/ reply.status = 201 /\ reply.shape = "token")
    \/ ~\E i \in 1..Len(reply.services) :
           /\ reply.services[i].type = "identity"
           /\ reply.services[i].id \notin {Absent, <<>>}
           /\ \A j \in 1..(i - 1) :
                  reply.services[j].type = "identity"
                      => reply.services[j].id = <<>>

\* the host a well-formed endpoint was written with, without the brackets
\* of an IPv6 address
BareHost(p) == IF p.host = H_v6 THEN <<":", ":", "1">> ELSE p.host

\* C6 as stated: when the lookup fails and the auth URL has an http or
\* https scheme, the call does not raise and returns the hash of the
\* endpoint's host.
C6_Original ==
    (/\ pc = "done"
     /\ sent # <<>>
     /\ LookupFails(response)
     /\ HttpScheme(auth_url))
        => /\ exc = "none"
           /\ \E p \in AuthParts :
                  EndpointOf(p) = auth_url /\ ret = MD5Hex(LowerStr(p.host))

\* C7: the fallback CPID is the digest of the endpoint's hostname alone,
\* lower-cased: scheme, user, port, path and letter case do not count, and
\* 'https://cloud.example.com:5000/v3' gives the digest of
\* 'cloud.example.com'.
C7_HostnameDigest ==
    pc = "done" =>
        \A p \in EndpointParts :
            (/\ EndpointOf(p) = auth_url
             /\ LowerStr(p.scheme) \in {S_http, S_https}
             /\ p.sep = <<":", "/", "/">>
             /\ p.host \notin {<<>>, H_v6open})
                => /\ exc = "none"
                   /\ ret = MD5Hex(LowerStr(BareHost(p)))

C7_Witness ==
    /\ pc = "done"
    /\ auth_url = S_https \o <<":", "/", "/">> \o H_cloud
                      \o <<":", "5", "0", "0", "0">> \o <<"/", "v", "3">>
    /\ ret = MD5Hex(H_cloud)

\* C8: for an endpoint whose scheme is not http or https the fallback
\* raises ValueError and gives no CPID, called directly or after a failed
\* lookup, where the error reaches the caller of _get_cpid_from_keystone.
C8_BadSchemeRaises ==
    (/\ pc = "done"
     /\ ~HttpScheme(auth_url)
     /\ (sent # <<>> => LookupFails(response)))
        => exc = "ValueError" /\ ret = None

\* the lookup for 'ftp://bad.example.com' failed and the call has ended
C8_Witness ==
    /\ pc = "done"
    /\ sent # <<>>
    /\ auth_url = S_ftp \o <<":", "/", "/">> \o H_bad
    /\ exc = "ValueError"

\* C9 as stated: with a parsed scheme of http or https the fallback
\* returns a digest, raises nothing and issues no request.
C9_Original ==
    (/\ pc = "done"
     /\ UrlSplit(auth_url).ok
     /\ UrlSplit(auth_url).scheme \in {S_http, S_https})
        => /\ exc = "none"
           /\ ret # None
           /\ sent = <<>>

\* what holds instead: it returns a digest exactly when the URL has a host
C9_NeedsHost ==
    (/\ pc = "done"
     /\ UrlSplit(auth_url).ok
     /\ UrlSplit(auth_url).scheme \in {S_http, S_https})
        => /\ sent = <<>>
           /\ (exc = "none" /\ ret # None)
                  \/ (exc = "AttributeError" /\ ret = None
                      /\ Hostname(UrlSplit(auth_url).netloc) = None)

\* C6 holds of the auth URLs that have a host
C6_WithHost ==
    (/\ pc = "done"
     /\ sent # <<>>
     /\ LookupFails(response)
     /\ HttpScheme(auth_url))
        => \A p \in AuthParts :
               (EndpointOf(p) = auth_url /\ p.host # <<>>)
                   => exc = "none" /\ ret = MD5Hex(LowerStr(p.host))

----------------------------------------------------------------------------
(* Claims about post_results. *)

\* a key was given and it cannot be loaded
KeyUnloadable ==
    /\ args.sign_with # NoKey
    /\ keyfile.state # "valid"

Signed(requests) ==
    /\ Len(requests) = 1
    /\ "X-Signature" \in DOMAIN requests[1].headers

\* two calls, one after the other, both sent a signed request, made with
\* the same private key over the same envelope
SameKeyAndEnvelope ==
    /\ prev.kind = "call"
    /\ Signed(prev.sent)
    /\ Signed(sent)
    /\ prev.keyfile.key = keyfile.key
    /\ prev.args.content = args.content

SignatureProduced ==
    /\ args.sign_with # NoKey
    /\ keyfile.state = "valid"

\* C12: every POST post_results sends to '{url}/v1/results/' carries
\* X-Signature and X-Public-Key both or neither, and both exactly when a
\* signing key was supplied and a signature was produced from it.
C12_BothOrNeither ==
    \A i \in 1..Len(sent) :
        LET H == DOMAIN sent[i].headers
        IN  /\ sent[i].method = "POST"
            /\ sent[i].url = <<args.url, "/v1/results/">>
            /\ "X-Signature" \in H <=> "X-Public-Key" \in H
            /\ "X-Signature" \in H <=> SignatureProduced
            /\ "X-Public-Key" \in H =>
                   sent[i].headers["X-Public-Key"] = PublicBytes(keyfile.key)

\* a signed request has been sent
C12_Witness ==
    /\ Len(sent) = 1
    /\ SignatureProduced
    /\ DOMAIN sent[1].headers
           = {"Content-type", "X-Signature", "X-Public-Key"}

\* C13 as stated: whatever the POST came to (a status other than 201, a
\* failed transport, a response body that is not valid JSON, on a 201
\* too), post_results returns to its caller without raising.
C13_Original ==
    (pc = "done" /\ Len(sent) = 1) => exc = "none"

\* post_results gave up before sending
GaveUp == key_outcome(args.sign_with, keyfile) \notin {"signed", "unsigned"}

\* C14: a call of post_results issues at most one POST to the results
\* endpoint, whatever that POST comes to, and none when it gives up
\* before sending.
C14_AtMostOnePost ==
    /\ Len(sent) <= 1
    /\ GaveUp => sent = <<>>
    /\ \A i \in 1..Len(sent) :
           /\ sent[i].method = "POST"
           /\ sent[i].url = <<args.url, "/v1/results/">>

\* the one POST failed in transport and post_results has returned
C14_Witness ==
    /\ pc = "done"
    /\ Len(sent) = 1
    /\ response.kind = "exception"
    /\ exc = "none"

----------------------------------------------------------------------------
(* Claims about yield_results and list. *)

\* the pages requested so far, in order
PagesRequested == [i \in 1..Len(sent) |-> sent[i].page]

\* the batches of pages 1..k, in order
BatchesUpTo(k) == [i \in 1..k |-> Batch(i)]

\* the server reports n pages in every response, every request so far was
\* answered successfully, and the retrieval started at page 1
AnswersWith(n) ==
    /\ server.fixed
    /\ server.total = n
    /\ start_page = 1
    /\ response.kind \in {"none", "ok"}

\* C15: against a server that answers every request successfully and always
\* reports N >= 1 pages, a retrieval started at page 1 requests pages
\* 1, 2, ..., N in that order, each once, yields the N batches in the same
\* order, none repeated and none skipped, and requests no page beyond N.
C15_PagesInOrder ==
    \A n \in 1..MaxPages :
        AnswersWith(n) =>
            /\ Len(sent) <= n
            /\ PagesRequested = [i \in 1..Len(sent) |-> i]
            /\ batches = BatchesUpTo(Len(sent))
            /\ (gen = "ended" /\ pc # "interrupted") => Len(sent) = n

\* the retrieval of three pages is over
C15_Witness ==
    /\ AnswersWith(3)
    /\ gen = "ended"
    /\ pc # "interrupted"
    /\ PagesRequested = <<1, 2, 3>>
    /\ batches = <<Batch(1), Batch(2), Batch(3)>>

\* C16 as stated: whatever total page counts the server reports, a
\* consumer that keeps asking for the next batch reaches the end of the
\* sequence after finitely many GET requests.
C16_Original == <>(gen = "ended")

\* C17 as stated: when fetching a page fails with an error status or a
\* failed request, the consumer sees a normal end of the sequence: no
\* exception reaches it (and no further GET is issued).
C17_Original ==
    response.kind \in {"http_error", "conn_error"} =>
        /\ exc = "none"
        /\ pc = "returned"
        /\ gen = "ended"

\* the batches the consumer is done with: at the prompt it still holds
\* the last one
Handled == IF pc = "prompt" THEN Len(batches) - 1 ELSE Len(batches)

\* a request is issued in this step
GetIssued == sent' # sent \/ (gen = "loop" /\ gen' # "loop")

\* C18: yield_results issues the GET of a page only when its consumer asks
\* for that batch: the request for page n+1 never precedes the consumer's
\* handling of batch n, and after the operator interrupts list at the
\* prompt no further GET is issued.
C18_Lazy ==
    [][/\ GetIssued => pc = "next"
       /\ GetIssued => Len(sent) <= Handled
       /\ pc = "interrupted" => (sent' = sent /\ ~GetIssued)]_vars

\* list was interrupted at the prompt of the second page
C18_Witness ==
    /\ pc = "interrupted"
    /\ PagesRequested = <<1, 2>>
    /\ gen = "ended"
    /\ response.total = 3

----------------------------------------------------------------------------
(* Claims about the temporary files and about test(). *)

\* the names of the files _write_normalized_test_list has created
Created == 1..Len(files)

\* C19 as stated: once the owning process has exited, on whatever path and
\* at whatever point after the creation of a temporary list file, none of
\* the files _write_normalized_test_list created exists any more.
C19_Original ==
    pc = "exited" => exists \cap Created = {}

\* the files whose creation ran up to the registration at line 167 are
\* removed at exit
C19_RegisteredRemoved ==
    (pc = "exited" /\ exc = "none") => exists = {}

\* an upload is being attempted or has been
UploadAttempted == pc \in {"post", "send", "responded"} \/ sent # <<>>

\* C20: in test(), the runner having produced a results stream, the
\* envelope JSON file is written before any upload is attempted, and no
\* outcome of the upload (a status other than 201, a failed transport, a
\* failing signing key, an exception raised by the upload) removes,
\* truncates or rewrites it.
C20_FileKept ==
    /\ UploadAttempted => json_file = _save_json_results(args.content)
    /\ (pc = "done" /\ args.subunit) =>
           json_file = _save_json_results(args.content)
    /\ UploadAttempted => (args.subunit /\ args.upload)

\* the upload raised, the file is there
C20_Witness ==
    /\ pc = "done"
    /\ Len(sent) = 1
    /\ exc = "ValueError"
    /\ json_file = _save_json_results(args.content)

----------------------------------------------------------------------------
(* Claims about upload and upload_subunit. *)

\* C21: upload and upload_subunit abort at once with exit status 1 when the
\* results file does not exist: before any CPID is computed, before the
\* operator is prompted and before any POST is issued.
C21_MissingFileAborts ==
    (args.file = "missing" /\ pc # "upload") =>
        /\ pc = "exited"
        /\ exc = "SystemExit(1)"
        /\ events = <<>>
        /\ sent = <<>>
        /\ args.content = NoContent

\* the command has exited on a missing file
C21_Witness ==
    /\ pc = "exited"
    /\ args.file = "missing"
    /\ args.command = "upload_subunit"
    /\ exc = "SystemExit(1)"
    /\ events = <<>>

\* upload_subunit has built its envelope
SubunitEnvelope ==
    /\ args.command = "upload_subunit"
    /\ args.content # NoContent

\* C23: the envelope upload_subunit builds has duration_seconds 0, and an
\* envelope built by _form_result_content has exactly the fields cpid,
\* duration_seconds and results, holding the values passed in.
C23_SubunitEnvelope ==
    /\ SubunitEnvelope =>
           /\ args.content.duration_seconds = 0
           /\ DOMAIN args.content = {"cpid", "duration_seconds", "results"}
           /\ args.content.cpid = generate_cpid(auth_url).ret
           /\ args.content.results \in PassedTests
           /\ \A i \in 1..Len(sent) : sent[i].data = Dumps(args.content)
    /\ \A c \in {"cpid1", "cpid2"}, d \in 0..MaxDuration, r \in PassedTests :
           LET content == _form_result_content(c, d, r)
           IN  /\ DOMAIN content = {"cpid", "duration_seconds", "results"}
               /\ content.cpid = c
               /\ content.duration_seconds = d
               /\ content.results = r

\* upload_subunit has posted its envelope
C23_Witness ==
    /\ SubunitEnvelope
    /\ Len(sent) = 1
    /\ sent[1].data = Dumps(args.content)
    /\ args.content.duration_seconds = 0
    /\ args.content.results = <<"t1", "t2">>

\* the operator was asked and typed inp
Answered(inp) ==
    \E i \in 1..Len(events) : events[i] = Event("prompt", inp)

\* the assume-yes flag is set, or the answer, lower-cased, is yes or y
Consent ==
    \/ args.quiet
    \/ \E inp \in Answers : Answered(inp) /\ LowerStr(inp) \in Yes

\* C25: upload and upload_subunit call post_results only if the assume-yes
\* flag is set or the operator's answer, lower-cased, is 'yes' or 'y'; any
\* other answer, or an interrupt at the prompt, gives no POST and no error.
C25_OnlyWithConsent ==
    /\ UploadAttempted => Consent
    /\ (pc = "done" /\ ~Consent /\ events # <<>>
            /\ events[Len(events)].step = "prompt") =>
           /\ sent = <<>>
           /\ exc = "none"
           /\ response = NoReply

\* the operator interrupted the prompt and the command is over
C25_Witness ==
    /\ pc = "done"
    /\ Answered(Interrupt)
    /\ sent = <<>>
    /\ exc = "none"

----------------------------------------------------------------------------
(* Claims about the user's test list. *)

\* the user's test list cannot be read
Unreadable ==
    list_location.kind \in {"path_missing", "url_failed", "url_error"}

\* C22 as stated: when the user's test list cannot be read (a path that
\* names no readable file, a URL whose request fails, a URL answered with
\* an error status), _get_base_test_ids_from_list_file raises and
\* get_normalized_test_list aborts without creating a list file.
C22_Original ==
    (Unreadable /\ pc # "base") =>
        /\ pc = "raised"
        /\ exc # "none"
        /\ base_ids = <<>>
        /\ files = <<>>

\* a missing file and a failed request do raise, no file being created
C22_RaisesOnFailure ==
    (list_location.kind \in {"path_missing", "url_failed"} /\ pc # "base") =>
        /\ pc = "raised"
        /\ exc \in {"IOError", "ConnectionError"}
        /\ base_ids = <<>>
        /\ files = <<>>

\* the lines of the file written that stand for the base identifier b
LinesOf(b) ==
    {i \in 1..Len(test_list) :
        test_list[i] = full_test_id(b, tempest_ids[b])}

\* the user's list names a base identifier on two lines, with different
\* attribute tags
RepeatsWithTags ==
    LET lines == read_list(list_location).lines
    IN  \E i, j \in 1..Len(lines) :
            /\ i # j
            /\ lines[i] # <<>>
            /\ lines[i] # lines[j]
            /\ lines[j] # <<>>
            /\ DOMAIN _form_test_id_mappings(<<lines[i]>>)
                   = DOMAIN _form_test_id_mappings(<<lines[j]>>)

\* C26: the base identifiers _get_base_test_ids_from_list_file extracts
\* hold each distinct base identifier at most once, so the file written by
\* get_normalized_test_list has at most one line per distinct base
\* identifier, even when the user's list repeats an identifier or lists it
\* with different attribute tags.
C26_DistinctBaseIds ==
    /\ \A i, j \in 1..Len(base_ids) : i # j => base_ids[i] # base_ids[j]
    /\ pc \in {"normalized", "written"} =>
           /\ Len(test_list) <= Len(base_ids)
           /\ \A b \in DOMAIN tempest_ids : Cardinality(LinesOf(b)) <= 1
    /\ pc = "written" => files[ret] = FileText(test_list)

\* a list naming one identifier with two tags has given a file of one line
C26_Witness ==
    /\ pc = "written"
    /\ RepeatsWithTags
    /\ Len(read_list(list_location).lines) = 2
    /\ Len(test_list) = 1
    /\ files[ret] = FileText(test_list)

\* the positions of the character c in line
Positions(line, c) == {i \in 1..Len(line) : line[i] = c}

\* line is p+t or p+t+s: t one bracket group, no other bracket in the line,
\* no '(' in p, s starting with '('
RoundTripLine(line) ==
    /\ ~Contains(line, NL)
    /\ Cardinality(Positions(line, "[")) = 1
    /\ Cardinality(Positions(line, "]")) = 1
    /\ LET open == Find(line, "[", 1)
           close == Find(line, "]", 1)
       IN  /\ open < close
           /\ Positions(line, "(") \cap 1..(open - 1) = {}
           /\ close < Len(line) => line[close + 1] = "("

\* C24: for a listing line p+t or p+t+s, t a single bracket group, the line
\* having no other bracket, p no '(' and s starting with '(', building the
\* mapping from the line and normalizing its bracket-stripped form gives
\* back exactly the line.
C24_RoundTrip ==
    (pc = "round" /\ RoundTripLine(stdout)) =>
        /\ DOMAIN tempest_ids = {TagSub(stdout)}
        /\ base_ids = <<TagSub(stdout)>>
        /\ test_list = <<stdout>>

\* a line with a tag and a scenario of two parentheses has come back
C24_Witness ==
    /\ pc = "round"
    /\ stdout = <<"a", "[", "]", "(", "(">>
    /\ base_ids = <<<<"a", "(", "(">>>>
    /\ test_list = <<stdout>>

====
